---- MODULE Spec2Model ----
(***************************************************************************)
(* Model of generate_qr.py: the command-line entry point main() and the    *)
(* function generate_qr_code(email, subject, logo_path, body, output_file).*)
(*                                                                         *)
(* Text is a sequence of Unicode code points.  An optional value (a flag   *)
(* that may be absent, Python's None) is the empty tuple None or the       *)
(* one-element tuple Some(v).  Images are records of their pixel size and  *)
(* the rectangle a paste has overwritten; the module matrix of a QR symbol *)
(* is represented by the version and the data chunks it encodes.           *)
(***************************************************************************)
EXTENDS Integers, Sequences, FiniteSets, TLC

VARIABLES
    pc,          \* position of the program
    argv,        \* the command line: which flags it holds and their values
    args,        \* parameters generate_qr_code was called with
    calls,       \* number of calls of generate_qr_code
    body,        \* local: the body text after the default is applied
    email_link,  \* local: the mailto string
    qr,          \* local: the qrcode.QRCode object
    qr_img,      \* local: the rendered image
    logo,        \* local: the logo image
    pos,         \* local: paste offset
    stdout,      \* lines printed
    disk,        \* writes made to the file system, in order
    shown,       \* number of times the viewer was asked to display
    steps,       \* the steps of generate_qr_code that have finished, in order
    exc,         \* the exception that is propagating, "" when none
    exit_status  \* exit status of the process, -1 while it runs

vars == <<pc, argv, args, calls, body, email_link, qr, qr_img, logo, pos,
          stdout, disk, shown, steps, exc, exit_status>>

----------------------------------------------------------------------------
(* Bounds of the model *)

\* logo files on disk are MaxLogoDim x MaxLogoDim pixels at most
MaxLogoDim == 3
\* length of the longest body tried beyond the capacity of version 40
OverflowSlack == 2

----------------------------------------------------------------------------
(* Optional values and text *)

None == << >>
Some(v) == <<v>>
IsNone(o) == o = None
Val(o) == o[1]

Rep(c, n) == [i \in 1..n |-> c]

\* "mailto:"
MailtoPrefix == <<109, 97, 105, 108, 116, 111, 58>>
\* "?subject="
SubjectKey == <<63, 115, 117, 98, 106, 101, 99, 116, 61>>
\* "&body="
BodyKey == <<38, 98, 111, 100, 121, 61>>

\* "Je suis intéressé(e) à participer à votre étude. Vous pouvez me contacter
\*  à cette adresse e-mail ou m'appeler au [votre numéro]."
DefaultBody ==
    <<74, 101, 32, 115, 117, 105, 115, 32, 105, 110, 116, 233, 114, 101, 115,
      115, 233, 40, 101, 41, 32, 224, 32, 112, 97, 114, 116, 105, 99, 105,
      112, 101, 114, 32, 224, 32, 118, 111, 116, 114, 101, 32, 233, 116, 117,
      100, 101, 46, 32, 86, 111, 117, 115, 32, 112, 111, 117, 118, 101, 122,
      32, 109, 101, 32, 99, 111, 110, 116, 97, 99, 116, 101, 114, 32, 224,
      32, 99, 101, 116, 116, 101, 32, 97, 100, 114, 101, 115, 115, 101, 32,
      101, 45, 109, 97, 105, 108, 32, 111, 117, 32, 109, 39, 97, 112, 112,
      101, 108, 101, 114, 32, 97, 117, 32, 91, 118, 111, 116, 114, 101, 32,
      110, 117, 109, 233, 114, 111, 93, 46>>

\* variant: `if not body`, which takes the empty string for an absent body
BodyOrDefaultFalsy(b) ==
    IF IsNone(b) \/ Val(b) = << >> THEN DefaultBody ELSE Val(b)

\* body = default when body is None (lines 56-59)
BodyOrDefault(b) == IF IsNone(b) THEN DefaultBody ELSE Val(b)

\* f"mailto:{email}?subject={subject}&body={body}" (line 62)
MailtoLink(email, subject, b) ==
    MailtoPrefix \o email \o SubjectKey \o subject \o BodyKey \o b

----------------------------------------------------------------------------
(* The qrcode library, as far as QRCode(...), add_data, make and make_image *)
(* use it                                                                  *)

MODE_NUMBER == 1
MODE_ALPHA_NUM == 2
MODE_8BIT_BYTE == 4
ERROR_CORRECT_H == 2

\* a lone surrogate, which a str can hold (argv gives one for a byte that is
\* not UTF-8) and which UTF-8 cannot encode
IsSurrogate(c) == 55296 <= c /\ c <= 57343

\* stands for UnicodeEncodeError raised by str.encode: no byte string holds -1
EncodeError == <<-1>>

\* str.encode("utf-8") of one code point
Utf8(c) ==
    IF IsSurrogate(c) THEN EncodeError
    ELSE IF c < 128 THEN <<c>>
    ELSE IF c < 2048 THEN <<192 + (c \div 64), 128 + (c % 64)>>
    ELSE IF c < 65536
         THEN <<224 + (c \div 4096), 128 + ((c \div 64) % 64), 128 + (c % 64)>>
    ELSE <<240 + (c \div 262144), 128 + ((c \div 4096) % 64),
           128 + ((c \div 64) % 64), 128 + (c % 64)>>

\* the UTF-8 bytes of s[lo..hi], s holding no surrogate
RECURSIVE Utf8Range(_, _, _)
Utf8Range(s, lo, hi) ==
    IF lo > hi THEN << >>
    ELSE IF lo = hi THEN Utf8(s[lo])
    ELSE LET mid == (lo + hi) \div 2
         IN  Utf8Range(s, lo, mid) \o Utf8Range(s, mid + 1, hi)

to_bytestring(s) ==
    IF \E i \in 1..Len(s) : IsSurrogate(s[i]) THEN EncodeError
    ELSE Utf8Range(s, 1, Len(s))

\* rb"\d"
IsDigit(b) == 48 <= b /\ b <= 57
\* util.ALPHA_NUM = b"0123456789ABCDEFGHIJKLMNOPQRSTUVWXYZ $%*+-./:"
IsAlphaNum(b) ==
    \/ IsDigit(b)
    \/ 65 <= b /\ b <= 90
    \/ b \in {32, 36, 37, 42, 43, 45, 46, 47, 58}

Matches(kind, b) == IF kind = "num" THEN IsDigit(b) ELSE IsAlphaNum(b)

\* QRCode.optimize: the shortest run split off as a chunk of its own
Optimize == 20

\* re.search of pattern{minimum,}: <<start, end>> of the first, longest run of
\* at least `minimum` matching bytes, <<0, 0>> when there is none
SearchRun(data, kind, minimum) ==
    LET n == Len(data)
        starts == {i \in 1..(n - minimum + 1) :
                      \A k \in 0..(minimum - 1) : Matches(kind, data[i + k])}
    IN  IF starts = {} THEN <<0, 0>>
        ELSE LET s == CHOOSE i \in starts : \A j \in starts : i <= j
                 stops == {j \in (s + minimum)..n : ~Matches(kind, data[j])}
                 e == IF stops = {} THEN n
                      ELSE (CHOOSE j \in stops : \A l \in stops : j <= l) - 1
             IN  <<s, e>>

\* re.search of ^pattern+$ (the form used when len(data) <= minimum): $ also
\* matches before a newline that ends the data
SearchWhole(data, kind) ==
    LET n == Len(data)
        e == IF n > 0 /\ data[n] = 10 THEN n - 1 ELSE n
    IN  IF e > 0 /\ \A i \in 1..e : Matches(kind, data[i])
        THEN <<1, e>> ELSE <<0, 0>>

\* util._optimal_split: the pieces <<matched, bytes>> of data
RECURSIVE optimal_split(_, _, _, _)
optimal_split(data, kind, whole, minimum) ==
    IF data = << >> THEN << >>
    ELSE LET m == IF whole THEN SearchWhole(data, kind)
                  ELSE SearchRun(data, kind, minimum)
         IN  IF m = <<0, 0>> THEN << <<FALSE, data>> >>
             ELSE (IF m[1] > 1
                   THEN << <<FALSE, SubSeq(data, 1, m[1] - 1)>> >> ELSE << >>)
                  \o << <<TRUE, SubSeq(data, m[1], m[2])>> >>
                  \o optimal_split(SubSeq(data, m[2] + 1, Len(data)),
                                   kind, whole, minimum)

\* the alphanumeric / byte chunks of the pieces that are not numeric
RECURSIVE AlphaChunks(_, _, _)
AlphaChunks(pieces, whole, minimum) ==
    IF pieces = << >> THEN << >>
    ELSE LET p == Head(pieces)
         IN  (IF p[1] THEN << [mode |-> MODE_NUMBER, data |-> p[2]] >>
              ELSE LET sub == optimal_split(p[2], "alpha", whole, minimum)
                   IN  [i \in 1..Len(sub) |->
                          [mode |-> IF sub[i][1] THEN MODE_ALPHA_NUM
                                    ELSE MODE_8BIT_BYTE,
                           data |-> sub[i][2]]])
             \o AlphaChunks(Tail(pieces), whole, minimum)

\* util.optimal_data_chunks(data, minimum)
optimal_data_chunks(text, minimum) ==
    LET data == to_bytestring(text)
        whole == Len(data) <= minimum
    IN  IF data = EncodeError THEN EncodeError
        ELSE AlphaChunks(optimal_split(data, "num", whole, minimum),
                         whole, minimum)

\* util.mode_sizes_for_version, as the class of versions sharing one table
ModeSizeClass(version) ==
    IF version < 10 THEN 1 ELSE IF version < 27 THEN 2 ELSE 3

\* util.length_in_bits(mode, version)
length_in_bits(mode, version) ==
    LET c == ModeSizeClass(version)
    IN  IF mode = MODE_NUMBER THEN <<10, 12, 14>>[c]
        ELSE IF mode = MODE_ALPHA_NUM THEN <<9, 11, 13>>[c]
        ELSE <<8, 16, 16>>[c]

\* QRData.write: the bits the data of a chunk takes
DataBits(chunk) ==
    LET n == Len(chunk.data)
    IN  IF chunk.mode = MODE_NUMBER
        THEN 10 * (n \div 3) + <<0, 4, 7>>[(n % 3) + 1]
        ELSE IF chunk.mode = MODE_ALPHA_NUM
        THEN 11 * (n \div 2) + 6 * (n % 2)
        ELSE 8 * n

\* the buffer length best_fit and create_data compute: for every chunk a
\* 4-bit mode, the length field and the data
RECURSIVE NeededBits(_, _)
NeededBits(data_list, version) ==
    IF data_list = << >> THEN 0
    ELSE 4 + length_in_bits(Head(data_list).mode, version)
           + DataBits(Head(data_list))
           + NeededBits(Tail(data_list), version)

\* data codewords of versions 1..40 at error correction H (base.rs_blocks)
DataCodewordsH ==
    <<9, 16, 26, 36, 46, 60, 66, 86, 100, 122,
      140, 158, 180, 197, 223, 253, 283, 313, 341, 385,
      406, 442, 464, 514, 538, 596, 628, 661, 701, 745,
      793, 845, 901, 961, 986, 1054, 1096, 1142, 1222, 1276>>

MaxVersion == 40

\* util.BIT_LIMIT_TABLE[ERROR_CORRECT_H][version]
BitLimit(version) == 8 * DataCodewordsH[version]

\* bisect_left(BIT_LIMIT_TABLE[H], needed, start): the first version from
\* start on whose limit is at least needed, 41 when there is none
BisectLeft(needed, start) ==
    LET fit == {v \in start..MaxVersion : BitLimit(v) >= needed}
    IN  IF fit = {} THEN MaxVersion + 1
        ELSE CHOOSE v \in fit : \A w \in fit : v <= w

\* QRCode.best_fit(start): the version chosen, 41 when no version holds the
\* data
RECURSIVE best_fit(_, _)
best_fit(data_list, start) ==
    LET v == BisectLeft(NeededBits(data_list, start), start)
    IN  IF v = MaxVersion + 1 THEN v
        ELSE IF ModeSizeClass(v) # ModeSizeClass(start)
        THEN best_fit(data_list, v)
        ELSE v

\* version * 4 + 17
modules_count(version) == version * 4 + 17

\* variant: the border counted on one side only
PixelSizeOneBorder(q) == (modules_count(q.version) + q.border) * q.box_size

\* PIL image factory: pixel_size = (width + border * 2) * box_size
pixel_size(q) == (modules_count(q.version) + q.border * 2) * q.box_size

----------------------------------------------------------------------------
(* The image library, as far as open, resize, paste, save and show use it  *)

\* what Image.open finds at a path
FileStatus(path) ==
    CASE path = "logo.png" -> "image"
      [] path = "truncated.png" -> "truncated"
      [] path = "corrupt.png" -> "corrupt"
      [] path = "locked.png" -> "denied"
      [] OTHER -> "missing"

\* whether Image.save can write at a path
Writable(path) == path # "/nodir/out.png"

\* the exception open() raises in Image.save for a path it cannot write: the
\* directory of "/nodir/out.png" does not exist
SaveError(path) ==
    IF path = "/nodir/out.png" THEN "FileNotFoundError" ELSE ""

\* variant: a quarter of the width
MaxLogoSizeQuarter(size) == size[1] \div 4

\* max_logo_size = qr_img.size[0] // 3 (line 84)
max_logo_size(size) == size[1] \div 3

\* variant: the difference not halved
CenterPosNoHalf(size, lsize) == <<size[1] - lsize[1], size[2] - lsize[2]>>

\* pos = ((W - w) // 2, (H - h) // 2) (line 88)
CenterPos(size, lsize) ==
    <<(size[1] - lsize[1]) \div 2, (size[2] - lsize[2]) \div 2>>

\* qr.make_image(fill_color="blue", back_color="white").convert("RGB")
make_image(q) ==
    [mode |-> "RGB",
     size |-> <<pixel_size(q), pixel_size(q)>>,
     version |-> q.version,
     data |-> q.data_list,
     overlay |-> None]

\* Image.paste(im, box) without a mask: the box is overwritten by im
Paste(img, im, at) ==
    [img EXCEPT !.overlay =
        Some([at |-> at, size |-> im.size, source |-> im.source,
              file_size |-> im.file_size])]

----------------------------------------------------------------------------
(* Inputs *)

\* "a@b.com"
EmailAB == <<97, 64, 98, 46, 99, 111, 109>>
\* "Hi"
SubjectHi == <<72, 105>>
\* "Étude & co?#"
SubjectRaw == <<201, 116, 117, 100, 101, 32, 38, 32, 99, 111, 63, 35>>
\* "B"
BodyB == <<66>>
\* "\udcff": the byte 0xFF on the command line
BodySurrogate == <<56575>>

\* the longest text of x's that fits version v together with a prefix of
\* `used` bytes, as one byte-mode chunk
FillLen(v, used) ==
    (BitLimit(v) - 4 - length_in_bits(MODE_8BIT_BYTE, v)) \div 8 - used

\* bytes of "mailto:a@b.com?subject=Hi&body="
UsedAB == Len(MailtoLink(EmailAB, SubjectHi, << >>))

LogoPaths ==
    {"logo.png", "missing.png", "truncated.png", "corrupt.png", "locked.png"}
OutputPaths == {"out.png", "/nodir/out.png"}

\* bodies given on the command line: empty, one letter, a lone surrogate,
\* 25 digits, one that
\* needs version 7, one that no version holds
CliBodies ==
    {<< >>, BodyB, BodySurrogate, Rep(55, 25), Rep(120, FillLen(7, UsedAB)),
     Rep(120, FillLen(MaxVersion, UsedAB) + OverflowSlack)}

Optional(S) == {None} \cup {Some(v) : v \in S}

CommandLines ==
    [email : Optional({EmailAB}),
     subject : Optional({SubjectHi, SubjectRaw}),
     logo : Optional(LogoPaths),
     body : Optional(CliBodies),
     output : Optional(OutputPaths),
     help : BOOLEAN,
     extra : BOOLEAN]

\* bodies of direct calls: for every version the longest body it holds and
\* the shortest it does not, and a lone surrogate
CallBodies ==
    {Rep(120, FillLen(v, UsedAB) + d) : v \in 6..MaxVersion, d \in {0, 1}}
        \cup {BodySurrogate}

CallArgs ==
    [email : {EmailAB},
     subject : {SubjectHi},
     logo_path : LogoPaths,
     body : Optional(CallBodies),
     output_file : {"email_qr.png", "/nodir/out.png"}]

----------------------------------------------------------------------------
(* Initial states *)

Locals ==
    /\ body = None
    /\ email_link = None
    /\ qr = None
    /\ qr_img = None
    /\ logo = None
    /\ pos = None
    /\ stdout = << >>
    /\ disk = << >>
    /\ shown = 0
    /\ steps = << >>
    /\ exc = ""
    /\ exit_status = -1

\* the script is run from the command line (lines 133-134)
Init ==
    /\ pc = "main"
    /\ argv \in {Some(c) : c \in CommandLines}
    /\ args = None
    /\ calls = 0
    /\ Locals

\* generate_qr_code is called as an imported function (lines 25-27)
InitCall ==
    /\ pc = "call"
    /\ argv = None
    /\ args \in {Some(a) : a \in CallArgs}
    /\ calls = 1
    /\ Locals

----------------------------------------------------------------------------
(* main() *)

\* parser.parse_args() (lines 116-127) on a command line whose flags carry
\* their values: "help", "usage" or "ok".  The help action exits as soon as
\* -h is met; the required flags and the unrecognised arguments are checked
\* when the whole line has been read.
ParseOutcome(c) ==
    IF c.help THEN "help"
    ELSE IF IsNone(c.email) \/ IsNone(c.subject) \/ IsNone(c.logo) THEN "usage"
    ELSE IF c.extra THEN "usage"
    ELSE "ok"

\* variant: another default for --output
ParsedArgsOtherDefault(c) ==
    [email |-> Val(c.email),
     subject |-> Val(c.subject),
     logo_path |-> Val(c.logo),
     body |-> c.body,
     output_file |-> IF IsNone(c.output) THEN "qr.png" ELSE Val(c.output)]

\* the parameters of the call at line 130
ParsedArgs(c) ==
    [email |-> Val(c.email),
     subject |-> Val(c.subject),
     logo_path |-> Val(c.logo),
     body |-> c.body,
     output_file |-> IF IsNone(c.output) THEN "email_qr.png" ELSE Val(c.output)]

\* -h / --help: the help text is printed and the process exits with 0
ParseHelp ==
    /\ pc = "main"
    /\ ParseOutcome(Val(argv)) = "help"
    /\ pc' = "exited"
    /\ stdout' = Append(stdout, <<"stdout", "help">>)
    /\ exc' = "SystemExit"
    /\ exit_status' = 0
    /\ UNCHANGED <<argv, args, calls, body, email_link, qr, qr_img, logo, pos,
                   disk, shown, steps>>

\* parser.error: usage and message on stderr, exit status 2
ParseError ==
    /\ pc = "main"
    /\ ParseOutcome(Val(argv)) = "usage"
    /\ pc' = "exited"
    /\ stdout' = Append(stdout, <<"stderr", "usage">>)
    /\ exc' = "SystemExit"
    /\ exit_status' = 2
    /\ UNCHANGED <<argv, args, calls, body, email_link, qr, qr_img, logo, pos,
                   disk, shown, steps>>

\* line 130: generate_qr_code(args.email, args.subject, args.logo, args.body,
\* args.output)
CallGenerate ==
    /\ pc = "main"
    /\ ParseOutcome(Val(argv)) = "ok"
    /\ pc' = "call"
    /\ args' = Some(ParsedArgs(Val(argv)))
    /\ calls' = calls + 1
    /\ UNCHANGED <<argv, body, email_link, qr, qr_img, logo, pos, stdout, disk,
                   shown, steps, exc, exit_status>>

\* generate_qr_code returned: main returns and the process exits with 0
ExitOK ==
    /\ pc = "returned"
    /\ argv # None
    /\ pc' = "exited"
    /\ exit_status' = 0
    /\ UNCHANGED <<argv, args, calls, body, email_link, qr, qr_img, logo, pos,
                   stdout, disk, shown, steps, exc>>

\* an exception left generate_qr_code: traceback, exit status 1
ExitError ==
    /\ pc = "raised"
    /\ argv # None
    /\ pc' = "exited"
    /\ stdout' = Append(stdout, <<"stderr", "Traceback", exc>>)
    /\ exit_status' = 1
    /\ UNCHANGED <<argv, args, calls, body, email_link, qr, qr_img, logo, pos,
                   disk, shown, steps, exc>>

----------------------------------------------------------------------------
(* generate_qr_code *)

A == Val(args)

\* a step of generate_qr_code raises: the exception leaves the function
Raise(e) ==
    /\ pc' = "raised"
    /\ exc' = e

\* variant: no handler
CaughtNothing(e) == FALSE

\* variant: `except Exception`
CaughtAll(e) == TRUE

\* except FileNotFoundError (line 93): the exceptions the handler catches
Caught(e) == e = "FileNotFoundError"

\* the exception Image.open raises at line 81 for what is at the path
OpenError(status) ==
    CASE status = "missing" -> "FileNotFoundError"
      [] status = "denied" -> "PermissionError"
      [] status = "corrupt" -> "UnidentifiedImageError"
      [] OTHER -> ""

\* qrcode.QRCode(version=6, error_correction=ERROR_CORRECT_H, box_size=10,
\* border=4) (lines 65-70)
NewQRCode ==
    [version |-> 6,
     error_correction |-> ERROR_CORRECT_H,
     box_size |-> 10,
     border |-> 4,
     data_list |-> << >>]

\* QRCode.best_fit(start) when no version holds the data: the last version
\* from 1 to 40 that was assigned to self.version
RECURSIVE kept_version(_, _)
kept_version(data_list, start) ==
    LET v == BisectLeft(NeededBits(data_list, start), start)
    IN  IF v = MaxVersion + 1 THEN start
        ELSE IF ModeSizeClass(v) # ModeSizeClass(start)
        THEN kept_version(data_list, v)
        ELSE v

\* how qr.make ends when no version holds the data.  In the releases of the
\* package where QRCode.version is a property, assigning 41 to it raises
\* ValueError ("Invalid version (was 41, expected 1 to 40)") and the version
\* stays the last one assigned; in the earlier releases the version becomes
\* 41 and best_fit raises DataOverflowError.  The script pins no release.
OverflowOutcomes(q) ==
    {[exc |-> "ValueError", version |-> kept_version(q.data_list, q.version)],
     [exc |-> "DataOverflowError", version |-> MaxVersion + 1]}

\* variant: make(fit=False), the version stays the one constructed
FitVersionFixed(q) ==
    IF NeededBits(q.data_list, q.version) <= BitLimit(q.version)
    THEN q.version ELSE MaxVersion + 1

\* qr.make(fit=True) (line 74): best_fit(start=self.version)
FitVersion(q) == best_fit(q.data_list, q.version)

\* lines 56-59
ApplyDefault ==
    /\ pc = "call"
    /\ pc' = "link"
    /\ body' = Some(BodyOrDefault(A.body))
    /\ UNCHANGED <<argv, args, calls, email_link, qr, qr_img, logo, pos,
                   stdout, disk, shown, steps, exc, exit_status>>

\* line 62
BuildLink ==
    /\ pc = "link"
    /\ pc' = "qr"
    /\ email_link' = Some(MailtoLink(A.email, A.subject, Val(body)))
    /\ steps' = Append(steps, "link")
    /\ UNCHANGED <<argv, args, calls, body, qr, qr_img, logo, pos, stdout,
                   disk, shown, exc, exit_status>>

\* lines 65-70
NewQR ==
    /\ pc = "qr"
    /\ pc' = "add_data"
    /\ qr' = Some(NewQRCode)
    /\ UNCHANGED <<argv, args, calls, body, email_link, qr_img, logo, pos,
                   stdout, disk, shown, steps, exc, exit_status>>

\* line 73: qr.add_data(email_link)
AddData ==
    /\ pc = "add_data"
    /\ to_bytestring(Val(email_link)) # EncodeError
    /\ pc' = "make"
    /\ qr' = Some([Val(qr) EXCEPT !.data_list =
                      @ \o optimal_data_chunks(Val(email_link), Optimize)])
    /\ UNCHANGED <<argv, args, calls, body, email_link, qr_img, logo, pos,
                   stdout, disk, shown, steps, exc, exit_status>>

\* line 73: the link holds a lone surrogate, UnicodeEncodeError
AddDataRaises ==
    /\ pc = "add_data"
    /\ to_bytestring(Val(email_link)) = EncodeError
    /\ Raise("UnicodeEncodeError")
    /\ UNCHANGED <<argv, args, calls, body, email_link, qr, qr_img, logo, pos,
                   stdout, disk, shown, steps, exit_status>>

\* line 74: a version holds the data
Make ==
    /\ pc = "make"
    /\ FitVersion(Val(qr)) <= MaxVersion
    /\ pc' = "make_image"
    /\ qr' = Some([Val(qr) EXCEPT !.version = FitVersion(Val(qr))])
    /\ steps' = Append(steps, "encode")
    /\ UNCHANGED <<argv, args, calls, body, email_link, qr_img, logo, pos,
                   stdout, disk, shown, exc, exit_status>>

\* line 74: no version holds the data, ValueError or DataOverflowError
MakeOverflow ==
    /\ pc = "make"
    /\ FitVersion(Val(qr)) > MaxVersion
    /\ \E o \in OverflowOutcomes(Val(qr)) :
          /\ qr' = Some([Val(qr) EXCEPT !.version = o.version])
          /\ Raise(o.exc)
    /\ UNCHANGED <<argv, args, calls, body, email_link, qr_img, logo, pos,
                   stdout, disk, shown, steps, exit_status>>

\* variant: the image is also saved as soon as it is rendered
MakeImageAndSave ==
    /\ pc = "make_image"
    /\ pc' = "logo_open"
    /\ qr_img' = Some(make_image(Val(qr)))
    /\ disk' = Append(disk, [path |-> Val(args).output_file,
                             image |-> make_image(Val(qr))])
    /\ steps' = Append(steps, "render")
    /\ UNCHANGED <<argv, args, calls, body, email_link, qr, logo, pos, stdout,
                   shown, exc, exit_status>>

\* line 77
MakeImage ==
    /\ pc = "make_image"
    /\ pc' = "logo_open"
    /\ qr_img' = Some(make_image(Val(qr)))
    /\ steps' = Append(steps, "render")
    /\ UNCHANGED <<argv, args, calls, body, email_link, qr, logo, pos, stdout,
                   disk, shown, exc, exit_status>>

\* line 81: Image.open reads the header of an image file
LogoOpen ==
    /\ pc = "logo_open"
    /\ FileStatus(A.logo_path) \in {"image", "truncated"}
    /\ \E w \in 1..MaxLogoDim, h \in 1..MaxLogoDim :
          logo' = Some([source |-> A.logo_path, file_size |-> <<w, h>>,
                        size |-> <<w, h>>])
    /\ pc' = "resize"
    /\ UNCHANGED <<argv, args, calls, body, email_link, qr, qr_img, pos,
                   stdout, disk, shown, steps, exc, exit_status>>

\* line 81 raises, and the handler of line 93 catches the exception
LogoOpenCaught ==
    /\ pc = "logo_open"
    /\ OpenError(FileStatus(A.logo_path)) # ""
    /\ Caught(OpenError(FileStatus(A.logo_path)))
    /\ pc' = "except"
    /\ UNCHANGED <<argv, args, calls, body, email_link, qr, qr_img, logo, pos,
                   stdout, disk, shown, steps, exc, exit_status>>

\* line 81 raises, and no handler catches the exception
LogoOpenRaises ==
    /\ pc = "logo_open"
    /\ OpenError(FileStatus(A.logo_path)) # ""
    /\ ~Caught(OpenError(FileStatus(A.logo_path)))
    /\ Raise(OpenError(FileStatus(A.logo_path)))
    /\ UNCHANGED <<argv, args, calls, body, email_link, qr, qr_img, logo, pos,
                   stdout, disk, shown, steps, exit_status>>

\* lines 84-85: logo.resize((max_logo_size, max_logo_size))
LogoResize ==
    /\ pc = "resize"
    /\ FileStatus(A.logo_path) = "image"
    /\ logo' = Some([Val(logo) EXCEPT !.size =
                        <<max_logo_size(Val(qr_img).size),
                          max_logo_size(Val(qr_img).size)>>])
    /\ pc' = "pos"
    /\ UNCHANGED <<argv, args, calls, body, email_link, qr, qr_img, pos,
                   stdout, disk, shown, steps, exc, exit_status>>

\* line 85: the pixel data is loaded and the file is truncated, OSError
LogoResizeRaises ==
    /\ pc = "resize"
    /\ FileStatus(A.logo_path) = "truncated"
    /\ ~Caught("OSError")
    /\ Raise("OSError")
    /\ UNCHANGED <<argv, args, calls, body, email_link, qr, qr_img, logo, pos,
                   stdout, disk, shown, steps, exit_status>>

\* line 88
LogoPos ==
    /\ pc = "pos"
    /\ pos' = Some(CenterPos(Val(qr_img).size, Val(logo).size))
    /\ pc' = "paste"
    /\ UNCHANGED <<argv, args, calls, body, email_link, qr, qr_img, logo,
                   stdout, disk, shown, steps, exc, exit_status>>

\* line 91
LogoPaste ==
    /\ pc = "paste"
    /\ qr_img' = Some(Paste(Val(qr_img), Val(logo), Val(pos)))
    /\ steps' = Append(steps, "logo")
    /\ pc' = "save"
    /\ UNCHANGED <<argv, args, calls, body, email_link, qr, logo, pos, stdout,
                   disk, shown, exc, exit_status>>

\* line 94
LogoNotFound ==
    /\ pc = "except"
    /\ stdout' = Append(stdout,
          <<"stdout", "Logo file not found. Proceeding without a logo.">>)
    /\ steps' = Append(steps, "nologo")
    /\ pc' = "save"
    /\ UNCHANGED <<argv, args, calls, body, email_link, qr, qr_img, logo, pos,
                   disk, shown, exc, exit_status>>

\* line 97
Save ==
    /\ pc = "save"
    /\ Writable(A.output_file)
    /\ disk' = Append(disk, [path |-> A.output_file, image |-> Val(qr_img)])
    /\ steps' = Append(steps, "save")
    /\ pc' = "show"
    /\ UNCHANGED <<argv, args, calls, body, email_link, qr, qr_img, logo, pos,
                   stdout, shown, exc, exit_status>>

\* line 97: the file cannot be written; the statement is outside the try
\* block, so the exception leaves the function whatever its class
SaveRaises ==
    /\ pc = "save"
    /\ ~Writable(A.output_file)
    /\ Raise(SaveError(A.output_file))
    /\ UNCHANGED <<argv, args, calls, body, email_link, qr, qr_img, logo, pos,
                   stdout, disk, shown, steps, exit_status>>

\* line 98: the viewer is asked to display the image and show returns
Show ==
    /\ pc = "show"
    /\ shown' = shown + 1
    /\ steps' = Append(steps, "show")
    /\ pc' = "print"
    /\ UNCHANGED <<argv, args, calls, body, email_link, qr, qr_img, logo, pos,
                   stdout, disk, exc, exit_status>>

\* variant: a failed display removes the file
ShowRaisesCleanup ==
    /\ pc = "show"
    /\ shown' = shown + 1
    /\ disk' = << >>
    /\ pc' = "raised"
    /\ exc' = "OSError"
    /\ UNCHANGED <<argv, args, calls, body, email_link, qr, qr_img, logo, pos,
                   stdout, steps, exit_status>>

\* line 98: the display step fails (no temporary file can be written)
ShowRaises ==
    /\ pc = "show"
    /\ shown' = shown + 1
    /\ Raise("OSError")
    /\ UNCHANGED <<argv, args, calls, body, email_link, qr, qr_img, logo, pos,
                   stdout, disk, steps, exit_status>>

\* line 99
PrintSaved ==
    /\ pc = "print"
    /\ stdout' = Append(stdout, <<"stdout", "QR code saved as", A.output_file>>)
    /\ steps' = Append(steps, "print")
    /\ pc' = "returned"
    /\ UNCHANGED <<argv, args, calls, body, email_link, qr, qr_img, logo, pos,
                   disk, shown, exc, exit_status>>

----------------------------------------------------------------------------
(* Specifications *)

Generate ==
    \/ ApplyDefault \/ BuildLink \/ NewQR \/ AddData \/ AddDataRaises
    \/ Make \/ MakeOverflow
    \/ MakeImage \/ LogoOpen \/ LogoOpenCaught \/ LogoOpenRaises
    \/ LogoResize \/ LogoResizeRaises \/ LogoPos \/ LogoPaste \/ LogoNotFound
    \/ Save \/ SaveRaises \/ Show \/ ShowRaises \/ PrintSaved

Next ==
    \/ ParseHelp \/ ParseError \/ CallGenerate
    \/ Generate
    \/ ExitOK \/ ExitError

\* the script run from the command line
Spec == Init /\ [][Next]_vars

\* generate_qr_code called directly
SpecCall == InitCall /\ [][Generate]_vars

----------------------------------------------------------------------------
(* Properties *)

Has(seq, x) == \E i \in 1..Len(seq) : seq[i] = x

Count(seq, x) == Cardinality({i \in 1..Len(seq) : seq[i] = x})

\* the bytes of the chunks of a data list, in order
RECURSIVE ChunkBytes(_)
ChunkBytes(data_list) ==
    IF data_list = << >> THEN << >>
    ELSE Head(data_list).data \o ChunkBytes(Tail(data_list))

NotFoundLine == <<"stdout", "Logo file not found. Proceeding without a logo.">>

\* side in pixels of the image of a version: (modules + 2 * 4) * 10
SideOf(v) == (17 + 4 * v + 8) * 10

\* the data list does not fit version 6 / fits no version at level H
TooLongFor6(data_list) == NeededBits(data_list, 6) > BitLimit(6)
TooLongFor40(data_list) == NeededBits(data_list, MaxVersion) > BitLimit(MaxVersion)

\* the make step (line 74) has acted
\* the exceptions with which qr.make ends when no version holds the data
OverflowErrors == {"ValueError", "DataOverflowError"}

MakeDone == Has(steps, "encode") \/ exc \in OverflowErrors

\* the run of the scenario: "a@b.com", "Hi", no body, a logo that is missing
Scenario ==
    /\ args # None
    /\ A.email = EmailAB
    /\ A.subject = SubjectHi
    /\ A.body = None
    /\ A.logo_path = "missing.png"

(* C1: the string handed to the QR encoder is "mailto:" + email +          *)
(* "?subject=" + subject + "&body=" + B, nothing escaped, where B is the   *)
(* default sentence when body is None and the supplied body otherwise, the *)
(* empty string included; the encoder's chunks hold its UTF-8 bytes, and   *)
(* the encoder refuses it only when it holds a lone surrogate.             *)
C1_MailtoVerbatim ==
    email_link # None =>
        LET L == Val(email_link)
            B == IF A.body = None THEN DefaultBody ELSE Val(A.body)
            i1 == Len(MailtoPrefix)
            i2 == i1 + Len(A.email)
            i3 == i2 + Len(SubjectKey)
            i4 == i3 + Len(A.subject)
            i5 == i4 + Len(BodyKey)
        IN  /\ Len(L) = i5 + Len(B)
            /\ SubSeq(L, 1, i1) = MailtoPrefix
            /\ SubSeq(L, i1 + 1, i2) = A.email
            /\ SubSeq(L, i2 + 1, i3) = SubjectKey
            /\ SubSeq(L, i3 + 1, i4) = A.subject
            /\ SubSeq(L, i4 + 1, i5) = BodyKey
            /\ SubSeq(L, i5 + 1, Len(L)) = B
            /\ (qr # None /\ pc # "add_data" /\ exc # "UnicodeEncodeError" =>
                   ChunkBytes(Val(qr).data_list) = to_bytestring(L))
            /\ (exc = "UnicodeEncodeError" =>
                   \E i \in 1..Len(L) : IsSurrogate(L[i]))

\* an empty body and a subject with a space, '&', '?' and '#' reach the encoder
C1_Witness ==
    /\ email_link # None
    /\ qr # None /\ pc = "make"
    /\ A.body = Some(<< >>)
    /\ A.subject = SubjectRaw

(* C2 as stated: every rendered image is the 490x490 image of version 6;   *)
(* in particular the one of the scenario run.                              *)
C2_Always490 ==
    qr_img # None =>
        /\ Val(qr_img).version = 6
        /\ Val(qr_img).size = <<490, 490>>

(* C2 amended: the symbol is built at the smallest version from 6 to 40    *)
(* that holds the payload at level H, the image is square with side        *)
(* (17 + 4 * version + 8) * 10 pixels with or without a logo, it is        *)
(* 490x490 exactly when the payload fits version 6, and the scenario run   *)
(* is built at version 13 and saves a 770x770 image.                       *)
C2_SizeFollowsVersion ==
    /\ qr_img # None =>
          LET img == Val(qr_img)
              v == img.version
          IN  /\ v \in 6..MaxVersion
              /\ NeededBits(img.data, v) <= BitLimit(v)
              /\ v > 6 => NeededBits(img.data, v - 1) > BitLimit(v - 1)
              /\ img.size = <<SideOf(v), SideOf(v)>>
              /\ (img.size = <<490, 490>>) <=> ~TooLongFor6(img.data)
              /\ Scenario => v = 13 /\ img.size = <<770, 770>>
    /\ \A i \in 1..Len(disk) :
          /\ disk[i].image.size = <<SideOf(disk[i].image.version),
                                    SideOf(disk[i].image.version)>>
          /\ qr_img # None /\ disk[i].image.size = Val(qr_img).size

\* the scenario run has saved its image
C2_Witness ==
    /\ Scenario
    /\ pc = "returned"
    /\ Len(disk) = 1
    /\ disk[1].image.size = <<770, 770>>

(* C3 as stated: a payload longer than version 6 holds at level H makes    *)
(* the encoding step fail, and the run ends without writing the file.      *)
C3_FailsBeyondVersion6 ==
    MakeDone /\ TooLongFor6(Val(qr).data_list) =>
        /\ exc \in OverflowErrors
        /\ disk = << >>

(* C3 amended: the make step (line 74) fails exactly when no version 6 to  *)
(* 40 holds the payload at level H; then ValueError (invalid version 41)   *)
(* or, with an earlier release of the package, DataOverflowError leaves    *)
(* the function, the symbol keeps no version that holds the payload, and   *)
(* no file is written.  A payload too long for version 6 that *)
(* a larger version holds is encoded at a larger version and the run goes  *)
(* on.                                                                     *)
C3_FailsBeyondVersion40 ==
    MakeDone =>
        LET dl == Val(qr).data_list
        IN  /\ TooLongFor40(dl) =>
                  /\ pc \in {"raised", "exited"}
                  /\ exc \in OverflowErrors
                  /\ exc = "DataOverflowError" => Val(qr).version = MaxVersion + 1
                  /\ exc = "ValueError" =>
                        /\ Val(qr).version \in 6..MaxVersion
                        /\ NeededBits(dl, Val(qr).version)
                              > BitLimit(Val(qr).version)
                  /\ ~Has(steps, "encode")
                  /\ qr_img = None
                  /\ disk = << >>
            /\ ~TooLongFor40(dl) =>
                  /\ exc \notin OverflowErrors
                  /\ Has(steps, "encode")
                  /\ TooLongFor6(dl) => Val(qr).version > 6

\* a payload that no version holds has made the encoding step fail
C3_Witness ==
    /\ MakeDone
    /\ TooLongFor40(Val(qr).data_list)
    /\ pc = "raised"

(* C4: with a logo path that names no file the not-found condition is      *)
(* caught (a FileNotFoundError that leaves the function comes from the     *)
(* save step, after the recovery), the message is printed once, the raster *)
(* stays as rendered, and the run goes on to save that raster and to       *)
(* return.                                                                 *)
C4_MissingLogoRecovers ==
    args # None /\ FileStatus(A.logo_path) = "missing" =>
        /\ exc = "FileNotFoundError" =>
              /\ Has(steps, "nologo")
              /\ steps[Len(steps)] = "nologo"
              /\ ~Writable(A.output_file)
        /\ logo = None
        /\ qr_img # None => Val(qr_img) = make_image(Val(qr))
        /\ pc \in {"save", "show", "print", "returned"} =>
              /\ Count(stdout, NotFoundLine) = 1
              /\ Count(steps, "nologo") = 1
        /\ pc \in {"show", "print", "returned"} =>
              disk = << [path |-> A.output_file,
                         image |-> make_image(Val(qr))] >>
        /\ pc = "exited" /\ Has(steps, "print") => exit_status = 0
        /\ Has(steps, "render") /\ pc \notin {"logo_open", "except"} =>
              Has(steps, "nologo")

\* a run with a missing logo has returned with the image saved
C4_Witness ==
    /\ args # None
    /\ FileStatus(A.logo_path) = "missing"
    /\ pc = "returned"
    /\ Has(stdout, NotFoundLine)
    /\ Len(disk) = 1
    /\ disk[1].image.overlay = None

(* C5: a failure of the logo step other than file-not-found is not caught: *)
(* the error leaves the function, no recovery message is printed and no    *)
(* file is written.                                                        *)
C5_OtherLogoErrorsPropagate ==
    args # None /\ FileStatus(A.logo_path) \in {"corrupt", "denied", "truncated"} =>
        /\ ~Has(stdout, NotFoundLine)
        /\ disk = << >>
        /\ pc \notin {"except", "pos", "paste", "save", "show", "print", "returned"}
        /\ Has(steps, "render") /\ pc \notin {"logo_open", "resize"} =>
              /\ pc \in {"raised", "exited"}
              /\ exc \in {"UnidentifiedImageError", "PermissionError", "OSError"}
              /\ pc = "exited" => exit_status = 1

\* a corrupt logo file has made the run end with the error
C5_Witness ==
    /\ args # None
    /\ FileStatus(A.logo_path) = "corrupt"
    /\ pc = "raised"
    /\ exc = "UnidentifiedImageError"

(* C6: once the logo is pasted the image has the size it was rendered      *)
(* with, the logo is a square of side floor(W / 3) whatever the size of    *)
(* the logo file, and its corner is at (floor((W - w) / 2),                *)
(* floor((H - h) / 2)).                                                    *)
C6_LogoSizeAndPlace ==
    Has(steps, "logo") =>
        LET img == Val(qr_img)
            W == img.size[1]
            H == img.size[2]
            o == Val(img.overlay)
            w == o.size[1]
            h == o.size[2]
        IN  /\ img.size = make_image(Val(qr)).size
            /\ W = SideOf(Val(qr).version) /\ H = W
            /\ w = h
            /\ 3 * w <= W /\ W < 3 * w + 3
            /\ 2 * o.at[1] <= W - w /\ W - w < 2 * o.at[1] + 2
            /\ 2 * o.at[2] <= H - h /\ H - h < 2 * o.at[2] + 2
            /\ Val(logo).size = o.size

\* a logo file that is not square has been pasted
C6_Witness ==
    /\ Has(steps, "logo")
    /\ Val(logo).file_size[1] # Val(logo).file_size[2]
    /\ Val(qr_img).overlay # None

(* C7: the file is written at most once, and only after the link, the      *)
(* encoding, the rendering and the logo step (pasted, or skipped because   *)
(* the file was not found) have finished in this order; when one of them   *)
(* fails nothing is written.                                               *)
C7_SaveOnceAfterAll ==
    /\ Len(disk) <= 1
    /\ Count(steps, "save") = Len(disk)
    /\ disk # << >> =>
          /\ Len(steps) >= 5
          /\ SubSeq(steps, 1, 3) = <<"link", "encode", "render">>
          /\ steps[4] \in {"logo", "nologo"}
          /\ steps[4] = "nologo" => FileStatus(A.logo_path) = "missing"
          /\ steps[4] = "logo" => FileStatus(A.logo_path) = "image"
          /\ steps[5] = "save"
    /\ exc \in {"UnicodeEncodeError", "DataOverflowError", "ValueError",
                "UnidentifiedImageError", "PermissionError"} =>
          disk = << >>
    /\ pc \in {"raised", "exited"} /\ Len(steps) < 5 => disk = << >>

\* the file has been written, after a pasted logo
C7_Witness ==
    /\ Len(disk) = 1
    /\ steps = <<"link", "encode", "render", "logo", "save">>

(* C8 as stated: a command line without one of --email, --subject, --logo  *)
(* ends in a usage error with a non-zero status and no call; with the      *)
(* three present generate_qr_code is called once with the parsed values.   *)
C8_RequiredFlagsDecide ==
    argv # None /\ pc # "main" =>
        LET c == Val(argv)
        IN  IF IsNone(c.email) \/ IsNone(c.subject) \/ IsNone(c.logo)
            THEN /\ pc = "exited"
                 /\ exit_status > 0
                 /\ Has(stdout, <<"stderr", "usage">>)
                 /\ calls = 0
                 /\ disk = << >>
            ELSE calls = 1

(* C8 amended: on a command line whose flags all carry their values: with  *)
(* -h/--help the help is printed and the status is 0,                      *)
(* without a call.  Otherwise a command line that lacks a required flag,   *)
(* or holds an argument the parser does not know, ends in a usage error    *)
(* with status 2 before any call, so no image is produced; and one with    *)
(* the three required flags and nothing unknown calls generate_qr_code     *)
(* exactly once with the parsed email, subject, logo, body (None when      *)
(* --body is absent) and output ("email_qr.png" when --output is absent).  *)
C8_ParseDecides ==
    argv # None /\ pc # "main" =>
        LET c == Val(argv)
            lacks == IsNone(c.email) \/ IsNone(c.subject) \/ IsNone(c.logo)
        IN  /\ c.help =>
                  /\ pc = "exited" /\ exit_status = 0
                  /\ calls = 0 /\ args = None /\ disk = << >>
            /\ ~c.help /\ (lacks \/ c.extra) =>
                  /\ pc = "exited" /\ exit_status = 2
                  /\ Has(stdout, <<"stderr", "usage">>)
                  /\ calls = 0 /\ args = None /\ disk = << >>
            /\ ~c.help /\ ~lacks /\ ~c.extra =>
                  /\ calls = 1
                  /\ args # None
                  /\ A.email = c.email[1]
                  /\ A.subject = c.subject[1]
                  /\ A.logo_path = c.logo[1]
                  /\ A.body = c.body
                  /\ c.body = None => A.body = None
                  /\ c.output = None => A.output_file = "email_qr.png"
                  /\ c.output # None => A.output_file = c.output[1]

\* a call made with --body and --output absent has returned
C8_Witness ==
    /\ argv # None
    /\ Val(argv).body = None /\ Val(argv).output = None
    /\ calls = 1
    /\ pc = "exited"
    /\ exit_status = 0

(* C9: the output stage saves, then displays, then prints; whenever the    *)
(* display is attempted the file is already written at the output path,    *)
(* and it stays written whether the display returns or fails.              *)
C9_SaveBeforeShow ==
    /\ args # None /\ (pc \in {"show", "print", "returned"} \/ shown > 0) =>
          /\ disk = << [path |-> A.output_file, image |-> Val(qr_img)] >>
          /\ Has(steps, "save")
    /\ shown <= 1
    /\ Has(steps, "show") =>
          /\ shown = 1
          /\ SubSeq(steps, 5, 6) = <<"save", "show">>
    /\ Has(steps, "print") =>
          /\ Len(steps) = 7
          /\ SubSeq(steps, 5, 7) = <<"save", "show", "print">>
          /\ stdout[Len(stdout)] = <<"stdout", "QR code saved as", A.output_file>>
    /\ pc = "print" => SubSeq(steps, 5, 6) = <<"save", "show">>

\* the display has failed and the file is written
C9_Witness ==
    /\ shown = 1
    /\ exc = "OSError"
    /\ ~Has(steps, "show")
    /\ Len(disk) = 1

(* C10: for the image of every version from 6 to 40, of side               *)
(* W = (17 + 4 * v + 8) * 10, the logo square of side s = W // 3 at offset *)
(* x = (W - s) // 2 lies inside the image, and the margins before and      *)
(* after it differ by one pixel at most, on both axes.                     *)
C10_LogoInsideAndCentred ==
    pos # None =>
        LET W == Val(qr_img).size[1]
            s == Val(logo).size[1]
            x == Val(pos)[1]
            y == Val(pos)[2]
        IN  /\ \E v \in 6..MaxVersion : W = SideOf(v) /\ v = Val(qr).version
            /\ Val(qr_img).size[2] = W
            /\ Val(logo).size[2] = s
            /\ 0 <= x /\ x + s <= W
            /\ 0 <= y /\ y + s <= W
            /\ (W - s - x) - x \in {-1, 0, 1}
            /\ (W - s - y) - y \in {-1, 0, 1}

\* the logo has been placed on the image of version 40
C10_Witness ==
    /\ pos # None
    /\ Val(qr).version = MaxVersion
    /\ Val(qr_img).overlay # None

====
